---- MODULE Spec2Model ----
(***************************************************************************)
(* EmbeddingFlow (src/app.js): tokenize -> hash to id -> pseudo-embedding  *)
(* -> grid rendering, driven by the run button and the text input.         *)
(*                                                                         *)
(* Strings are sequences of UTF-16 code units (what charCodeAt returns).   *)
(* Embedding values are two-decimal numbers in [0,1]; they are carried as  *)
(* integer hundredths (0.57 is 57), which is exact for every value         *)
(* Math.round(x * 100) / 100 can take.                                     *)
(***************************************************************************)
EXTENDS Integers, Sequences, FiniteSets, TLC

VARIABLES
    textValue,     \* textInput.value
    tokensOut,     \* tokensOut.textContent
    idsOut,        \* idsOut.textContent
    matrixMeta,    \* matrixMeta.textContent
    classList,     \* matrixContainer.classList
    matrixGrid,    \* children of matrixGrid (what innerHTML holds)
    gridTemplate,  \* matrixGrid.style.gridTemplateColumns / gridTemplateRows
    tokens,        \* runPipeline's local `tokens` of the latest invocation
    ids,           \* runPipeline's local `ids` of the latest invocation
    matrix,        \* runPipeline's local `matrix` of the latest invocation
    last,          \* the handler that ran last: "load", "click", "input", "render"
    shownBefore    \* history: <<tokensOut.textContent, number of grid children>>
                   \* as the latest handler found them

vars == <<textValue, tokensOut, idsOut, matrixMeta, classList, matrixGrid,
          gridTemplate, tokens, ids, matrix, last, shownBefore>>

(***************************************************************************)
(* Bounds of the model.                                                    *)
(***************************************************************************)
\* longest text typed into the input in Spec
MaxLen == 3
\* longest single word typed in WordSpec
MaxWordLen == 11
\* most rows of a matrix handed to renderMatrix in RenderSpec
MaxRenderRows == 2
\* largest dim handed to embedToken in RenderSpec
MaxRenderDim == 3

\* code units typed in Spec: space, '!', 'A', 'a'
Alphabet == {32, 33, 65, 97}
\* code units typed in WordSpec: 'a', 'z'
WordAlphabet == {97, 122}
\* tokens handed to renderMatrix in RenderSpec: "a", "k", "!", "aa"
RenderTokens == {<<97>>, <<107>>, <<33>>, <<97, 97>>}

(***************************************************************************)
(* Characters and string helpers.                                          *)
(***************************************************************************)
\* \s of a JavaScript regular expression, which is also what trim() strips
IsWhitespace(c) ==
    \/ c \in {9, 10, 11, 12, 13, 32, 160, 5760, 8232, 8233, 8239, 8287, 12288, 65279}
    \/ c \in 8192..8202

\* \w of a JavaScript regular expression: [A-Za-z0-9_]
IsWordChar(c) == c \in 48..57 \/ c \in 65..90 \/ c = 95 \/ c \in 97..122

\* String.prototype.toLowerCase on one ASCII code unit
ToLowerChar(c) == IF c \in 65..90 THEN c + 32 ELSE c

RECURSIVE TrimStart(_)
TrimStart(s) ==
    IF s # <<>> /\ IsWhitespace(Head(s)) THEN TrimStart(Tail(s)) ELSE s

RECURSIVE TrimEnd(_)
TrimEnd(s) ==
    IF s # <<>> /\ IsWhitespace(s[Len(s)])
    THEN TrimEnd(SubSeq(s, 1, Len(s) - 1))
    ELSE s

\* String.prototype.trim
Trim(s) == TrimEnd(TrimStart(s))

RECURSIVE ToLowerCase(_)
ToLowerCase(s) ==
    IF s = <<>> THEN <<>> ELSE <<ToLowerChar(Head(s))>> \o ToLowerCase(Tail(s))

\* the replacement written ' $&': a space before the code unit only
RECURSIVE ReplacePunctBefore(_)
ReplacePunctBefore(s) ==
    IF s = <<>> THEN <<>>
    ELSE LET c == Head(s) IN
         (IF ~IsWordChar(c) /\ ~IsWhitespace(c) THEN <<32, c>> ELSE <<c>>)
             \o ReplacePunctBefore(Tail(s))

\* .replace(/[^\w\s]/g, ' $& '): a space before and after every code unit
\* that is neither a word character nor whitespace
RECURSIVE ReplacePunct(_)
ReplacePunct(s) ==
    IF s = <<>> THEN <<>>
    ELSE LET c == Head(s) IN
         (IF ~IsWordChar(c) /\ ~IsWhitespace(c) THEN <<32, c, 32>> ELSE <<c>>)
             \o ReplacePunct(Tail(s))

\* .split(/\s+/): the pieces between maximal whitespace runs; a leading or
\* trailing run leaves an empty first or last piece
RECURSIVE SplitFrom(_, _, _)
SplitFrom(s, cur, acc) ==
    IF s = <<>> THEN Append(acc, cur)
    ELSE IF IsWhitespace(Head(s))
         THEN SplitFrom(TrimStart(Tail(s)), <<>>, Append(acc, cur))
         ELSE SplitFrom(Tail(s), Append(cur, Head(s)), acc)

SplitWhitespace(s) == SplitFrom(s, <<>>, <<>>)

\* .filter(Boolean) on an array of strings: the empty string is falsy
FilterBoolean(parts) == SelectSeq(parts, LAMBDA p : p # <<>>)

\* String(n) for a non-negative integer
RECURSIVE NumToStr(_)
NumToStr(n) ==
    IF n < 10 THEN <<48 + n>> ELSE Append(NumToStr(n \div 10), 48 + (n % 10))

\* Array.prototype.join
RECURSIVE Join(_, _)
Join(parts, sep) ==
    IF parts = <<>> THEN <<>>
    ELSE IF Len(parts) = 1 THEN parts[1]
    ELSE parts[1] \o sep \o Join(Tail(parts), sep)

RECURSIVE MapNumToStr(_)
MapNumToStr(ns) ==
    IF ns = <<>> THEN <<>> ELSE <<NumToStr(Head(ns))>> \o MapNumToStr(Tail(ns))

\* the literal '—'
Placeholder == <<8212>>
\* the literal ', '
CommaSpace == <<44, 32>>
\* the literal ' × '
TimesSign == <<32, 215, 32>>
\* the literal ' (tokens × dimensions)'
MetaSuffix == <<32, 40, 116, 111, 107, 101, 110, 115, 32, 215, 32, 100, 105,
                109, 101, 110, 115, 105, 111, 110, 115, 41>>
\* the literal '…'
Ellipsis == <<8230>>

(***************************************************************************)
(* tokenize                                                                *)
(***************************************************************************)
tokenize(text) ==
    IF text = <<>> \/ Trim(text) = <<>> THEN <<>>
    ELSE FilterBoolean(SplitWhitespace(ReplacePunct(ToLowerCase(Trim(text)))))

(***************************************************************************)
(* tokenToId.  h is an unsigned 32-bit value after every `>>> 0`; it is    *)
(* carried as <<high 16 bits, low 16 bits>>.  h * 31 + charCode is below   *)
(* 2^37, exact in a double, and `>>> 0` drops what exceeds 32 bits: the    *)
(* carry out of the high half.                                             *)
(***************************************************************************)
HashStep(h, c) ==
    LET lo == h[2] * 31 + c
        hi == h[1] * 31 + (lo \div 65536)
    IN  <<hi % 65536, lo % 65536>>

RECURSIVE HashLoop(_, _, _)
HashLoop(token, i, h) ==
    IF i > Len(token) THEN h ELSE HashLoop(token, i + 1, HashStep(h, token[i]))

\* the vocabulary size written 1000: h % 1000 of h = h[1] * 65536 + h[2]
tokenToIdMod1000(token) ==
    LET h == HashLoop(token, 1, <<0, 0>>) IN ((h[1] % 1000) * 536 + h[2]) % 1000

\* h % 1024 of h = h[1] * 65536 + h[2] is h[2] % 1024
tokenToId(token) ==
    LET h == HashLoop(token, 1, <<0, 0>>) IN h[2] % 1024

RECURSIVE MapTokenToId(_)
MapTokenToId(toks) ==
    IF toks = <<>> THEN <<>> ELSE <<tokenToId(Head(toks))>> \o MapTokenToId(Tail(toks))

(***************************************************************************)
(* embedToken.  Math.round((Math.sin(id * 0.1 + d * 0.5) * 0.5 + 0.5) *    *)
(* 100) depends on (id, d) only through id + 5 * d; SinTable tabulates it  *)
(* for id + 5 * d in 0 .. 1058 (every id in [0, 1024) and d in [0, 8)).    *)
(* No tabulated value lies within 0.0006 of a rounding boundary.           *)
(***************************************************************************)
SinTable == <<
    50, 55, 60, 65, 69, 74, 78, 82, 86, 89, 92, 95, 97, 98, 99, 100, 100, 100, 99, 97,
    95, 93, 90, 87, 84, 80, 76, 71, 67, 62, 57, 52, 47, 42, 37, 32, 28, 24, 19, 16,
    12, 9, 6, 4, 2, 1, 0, 0, 0, 1, 2, 4, 6, 8, 11, 15, 18, 22, 27, 31,
    36, 41, 46, 51, 56, 61, 66, 70, 75, 79, 83, 86, 90, 93, 95, 97, 98, 99, 100, 100,
    99, 98, 97, 95, 93, 90, 87, 83, 79, 75, 71, 66, 61, 56, 51, 46, 41, 36, 32, 27,
    23, 19, 15, 12, 9, 6, 4, 2, 1, 0, 0, 0, 1, 2, 4, 6, 9, 12, 15, 19,
    23, 28, 32, 37, 42, 47, 52, 57, 62, 66, 71, 75, 80, 83, 87, 90, 93, 95, 97, 99,
    100, 100, 100, 99, 98, 97, 95, 92, 89, 86, 83, 79, 74, 70, 65, 60, 55, 50, 45, 40,
    36, 31, 26, 22, 18, 14, 11, 8, 6, 4, 2, 1, 0, 0, 0, 1, 3, 4, 7, 9,
    12, 16, 20, 24, 28, 33, 38, 43, 48, 53, 57, 62, 67, 72, 76, 80, 84, 88, 91, 93,
    96, 97, 99, 100, 100, 100, 99, 98, 96, 94, 92, 89, 86, 82, 78, 74, 69, 64, 59, 55,
    50, 45, 40, 35, 30, 26, 21, 17, 14, 11, 8, 5, 3, 2, 1, 0, 0, 0, 1, 3,
    5, 7, 10, 13, 17, 20, 25, 29, 34, 38, 43, 48, 53, 58, 63, 68, 73, 77, 81, 85,
    88, 91, 94, 96, 98, 99, 100, 100, 100, 99, 98, 96, 94, 91, 88, 85, 81, 77, 73, 68,
    64, 59, 54, 49, 44, 39, 34, 29, 25, 21, 17, 13, 10, 7, 5, 3, 1, 1, 0, 0,
    1, 2, 3, 5, 8, 10, 14, 17, 21, 25, 30, 34, 39, 44, 49, 54, 59, 64, 69, 73,
    78, 82, 85, 89, 92, 94, 96, 98, 99, 100, 100, 100, 99, 98, 96, 94, 91, 88, 84, 81,
    76, 72, 67, 63, 58, 53, 48, 43, 38, 33, 29, 24, 20, 16, 13, 10, 7, 5, 3, 1,
    0, 0, 0, 1, 2, 3, 5, 8, 11, 14, 18, 22, 26, 31, 35, 40, 45, 50, 55, 60,
    65, 70, 74, 78, 82, 86, 89, 92, 95, 97, 98, 99, 100, 100, 100, 99, 97, 95, 93, 90,
    87, 84, 80, 76, 71, 67, 62, 57, 52, 47, 42, 37, 32, 28, 23, 19, 16, 12, 9, 6,
    4, 2, 1, 0, 0, 0, 1, 2, 4, 6, 8, 11, 15, 18, 23, 27, 31, 36, 41, 46,
    51, 56, 61, 66, 70, 75, 79, 83, 86, 90, 93, 95, 97, 98, 99, 100, 100, 99, 98, 97,
    95, 93, 90, 87, 83, 79, 75, 71, 66, 61, 56, 51, 46, 41, 36, 32, 27, 23, 19, 15,
    12, 9, 6, 4, 2, 1, 0, 0, 0, 1, 2, 4, 6, 9, 12, 15, 19, 23, 28, 32,
    37, 42, 47, 52, 57, 62, 66, 71, 75, 80, 84, 87, 90, 93, 95, 97, 99, 100, 100, 100,
    99, 98, 97, 95, 92, 89, 86, 82, 79, 74, 70, 65, 60, 55, 50, 45, 40, 36, 31, 26,
    22, 18, 14, 11, 8, 6, 4, 2, 1, 0, 0, 0, 1, 3, 4, 7, 9, 12, 16, 20,
    24, 28, 33, 38, 43, 48, 53, 58, 62, 67, 72, 76, 80, 84, 88, 91, 93, 96, 97, 99,
    100, 100, 100, 99, 98, 96, 94, 92, 89, 86, 82, 78, 74, 69, 64, 59, 55, 50, 45, 40,
    35, 30, 26, 21, 17, 14, 11, 8, 5, 3, 2, 1, 0, 0, 0, 1, 3, 5, 7, 10,
    13, 17, 20, 25, 29, 34, 39, 43, 48, 53, 58, 63, 68, 73, 77, 81, 85, 88, 91, 94,
    96, 98, 99, 100, 100, 100, 99, 98, 96, 94, 91, 88, 85, 81, 77, 73, 68, 64, 59, 54,
    49, 44, 39, 34, 29, 25, 21, 17, 13, 10, 7, 5, 3, 1, 1, 0, 0, 1, 2, 3,
    5, 8, 10, 14, 17, 21, 25, 30, 35, 39, 44, 49, 54, 59, 64, 69, 73, 78, 82, 85,
    89, 92, 94, 96, 98, 99, 100, 100, 100, 99, 98, 96, 94, 91, 88, 84, 81, 76, 72, 67,
    63, 58, 53, 48, 43, 38, 33, 29, 24, 20, 16, 13, 10, 7, 4, 3, 1, 0, 0, 0,
    1, 2, 3, 5, 8, 11, 14, 18, 22, 26, 31, 35, 40, 45, 50, 55, 60, 65, 70, 74,
    78, 82, 86, 89, 92, 95, 97, 98, 99, 100, 100, 100, 99, 97, 95, 93, 90, 87, 84, 80,
    76, 71, 67, 62, 57, 52, 47, 42, 37, 32, 28, 23, 19, 16, 12, 9, 6, 4, 2, 1,
    0, 0, 0, 1, 2, 4, 6, 8, 11, 15, 19, 23, 27, 31, 36, 41, 46, 51, 56, 61,
    66, 70, 75, 79, 83, 87, 90, 93, 95, 97, 98, 99, 100, 100, 99, 98, 97, 95, 93, 90,
    87, 83, 79, 75, 71, 66, 61, 56, 51, 46, 41, 36, 32, 27, 23, 19, 15, 12, 9, 6,
    4, 2, 1, 0, 0, 0, 1, 2, 4, 6, 9, 12, 15, 19, 23, 28, 32, 37, 42, 47,
    52, 57, 62, 66, 71, 76, 80, 84, 87, 90, 93, 95, 97, 99, 100, 100, 100, 99, 98, 97,
    95, 92, 89, 86, 82, 78, 74, 70, 65, 60, 55, 50, 45, 40, 36, 31, 26, 22, 18, 14,
    11, 8, 6, 4, 2, 1, 0, 0, 0, 1, 3, 4, 7, 9, 13, 16, 20, 24, 28, 33,
    38, 43, 48, 53, 58, 62, 67, 72, 76, 80, 84, 88, 91, 93, 96, 97, 99, 100, 100, 100,
    99, 98, 96, 94, 92, 89, 85, 82, 78, 74, 69, 64, 59, 54, 49, 44, 40, 35, 30, 26,
    21, 17, 14, 11, 8, 5, 3, 2, 1, 0, 0, 0, 1, 3, 5, 7, 10, 13, 17, 21,
    25, 29, 34, 39, 43, 48, 53, 58, 63, 68, 73, 77, 81, 85, 88, 91, 94, 96, 98, 99,
    100, 100, 100, 99, 98, 96, 94, 91, 88, 85, 81, 77, 73, 68, 63, 59, 54, 49, 44, 39,
    34, 29, 25, 21, 17, 13, 10, 7, 5, 3, 1, 1, 0, 0, 1, 2, 3, 5, 8
>>

\* Math.round(x * 100) of the loop body, in hundredths
EmbedValue(id, d) == SinTable[id + 5 * d + 1]

RECURSIVE EmbedLoop(_, _, _, _)
EmbedLoop(id, dimension, d, vec) ==
    IF d < dimension
    THEN EmbedLoop(id, dimension, d + 1, Append(vec, EmbedValue(id, d)))
    ELSE vec

\* the loop condition written d <= dim: one entry too many
embedTokenOffByOne(id, dimension) == EmbedLoop(id, dimension + 1, 0, <<>>)

embedToken(id, dimension) == EmbedLoop(id, dimension, 0, <<>>)

\* const dim = 8
dim == 8

(***************************************************************************)
(* renderMatrix                                                            *)
(***************************************************************************)
\* createCell: a div with class 'matrix-cell ' + className and the text;
\* background and color are the inline styles set afterwards (empty: unset)
createCell(text, className) ==
    [className |-> <<"matrix-cell", className>>, textContent |-> text,
     background |-> <<>>, color |-> ""]

\* matrix.flat()
RECURSIVE Flat(_)
Flat(m) == IF m = <<>> THEN <<>> ELSE Head(m) \o Flat(Tail(m))

\* Math.min(...allValues), Math.max(...allValues)
MathMin(values) ==
    CHOOSE v \in {values[i] : i \in 1..Len(values)} :
        \A i \in 1..Len(values) : v <= values[i]
MathMax(values) ==
    CHOOSE v \in {values[i] : i \in 1..Len(values)} :
        \A i \in 1..Len(values) : v >= values[i]

\* `max - min || 1`, in hundredths: a zero range becomes 1.00
HeatRange(min, max) == IF max - min = 0 THEN 100 ELSE max - min

\* Math.round of the non-negative rational num / den (halves round up)
MathRound(num, den) == (2 * num + den) \div (2 * den)

\* `rgb(${r},${g},${b})`
Rgb(r, g, b) ==
    <<114, 103, 98, 40>> \o NumToStr(r) \o <<44>> \o NumToStr(g) \o <<44>>
        \o NumToStr(b) \o <<41>>

\* t = (value - min) / range as the pair <<numerator, denominator>>
HeatT(value, min, range) == <<value - min, range>>

\* the interpolation written with t where the code has 1 - t
heatmapColorInverted(value, min, range) ==
    LET t == HeatT(value, min, range)
        r == 125 + MathRound(t[1] * 130, t[2])
        g == 211 + MathRound(t[1] * 44, t[2])
        b == 252
    IN  Rgb(r, g, b)

\* r = Math.round(125 + (1 - t) * 130), g = Math.round(211 + (1 - t) * 44),
\* b = Math.round(252); (1 - t) is (range - (value - min)) / range
heatmapColor(value, min, range) ==
    LET t == HeatT(value, min, range)
        r == 125 + MathRound((t[2] - t[1]) * 130, t[2])
        g == 211 + MathRound((t[2] - t[1]) * 44, t[2])
        b == 252
    IN  Rgb(r, g, b)

\* value.toFixed(2) of a value given in hundredths
ToFixed2(v) ==
    NumToStr(v \div 100) \o <<46, 48 + ((v \div 10) % 10), 48 + (v % 10)>>

\* the label written with the threshold of the slice: > 8 instead of > 10
TokenLabelSliceThreshold(token) ==
    IF Len(token) > 8 THEN SubSeq(token, 1, 8) \o Ellipsis ELSE token

\* tokens[r].length > 10 ? tokens[r].slice(0, 8) + '…' : tokens[r]
TokenLabel(token) ==
    IF Len(token) > 10 THEN SubSeq(token, 1, 8) \o Ellipsis ELSE token

\* the value cell of matrix[r][c]
ValueCell(value, min, range) ==
    [createCell(ToFixed2(value), "value") EXCEPT
        !.background = heatmapColor(value, min, range),
        !.color = IF value > 50 THEN "var(--bg)" ELSE "var(--text)"]

\* the dimension headers d0 .. d{cols-1}
RECURSIVE HeaderLoop(_, _, _)
HeaderLoop(children, c, cols) ==
    IF c < cols
    THEN HeaderLoop(Append(children, createCell(<<100>> \o NumToStr(c), "dim-label")),
                    c + 1, cols)
    ELSE children

\* the inner loop over the columns of row r
RECURSIVE ValueLoop(_, _, _, _, _)
ValueLoop(children, row, c, min, range) ==
    IF c <= Len(row)
    THEN ValueLoop(Append(children, ValueCell(row[c], min, range)), row, c + 1,
                   min, range)
    ELSE children

\* the rows written label-last: the values first, then the token label
RECURSIVE RowLoopLabelLast(_, _, _, _, _, _)
RowLoopLabelLast(children, toks, m, r, min, range) ==
    IF r <= Len(m)
    THEN RowLoopLabelLast(
             Append(ValueLoop(children, m[r], 1, min, range),
                    createCell(TokenLabel(toks[r]), "token-label")),
             toks, m, r + 1, min, range)
    ELSE children

\* the outer loop: a token label, then the values of the row
RECURSIVE RowLoop(_, _, _, _, _, _)
RowLoop(children, toks, m, r, min, range) ==
    IF r <= Len(m)
    THEN RowLoop(
             ValueLoop(Append(children, createCell(TokenLabel(toks[r]), "token-label")),
                       m[r], 1, min, range),
             toks, m, r + 1, min, range)
    ELSE children

\* matrixGrid.innerHTML = '' left out
KeepInnerHTML(children) == children
\* matrixGrid.innerHTML = ''
ClearInnerHTML(children) == <<>>

\* renderMatrix(tokens, matrix) on a grid that holds `children`; the result
\* is the grid's new children and its grid-template style <<cols, rows>>
renderMatrix(children, toks, m) ==
    LET rows == Len(m)
        cols == Len(m[1])
        allValues == Flat(m)
        min == MathMin(allValues)
        max == MathMax(allValues)
        range == HeatRange(min, max)
        corner == Append(ClearInnerHTML(children),
                         createCell(<<>>, "corner dim-label token-label"))
        header == HeaderLoop(corner, 0, cols)
    IN  [gridTemplate |-> <<cols, rows>>,
         children |-> RowLoop(header, toks, m, 1, min, range)]

(***************************************************************************)
(* runPipeline                                                             *)
(***************************************************************************)
\* tokens.map((_, i) => embedToken(ids[i], dim))
RECURSIVE MapEmbed(_, _, _)
MapEmbed(toks, is, i) ==
    IF i > Len(toks) THEN <<>>
    ELSE <<embedToken(is[i], dim)>> \o MapEmbed(toks, is, i + 1)

\* the summary written without its placeholder branch
SummaryTextNoPlaceholder(parts) == Join(parts, CommaSpace)

\* tokens.length ? tokens.join(', ') : '—'  (and the same for ids)
SummaryText(parts) == IF Len(parts) # 0 THEN Join(parts, CommaSpace) ELSE Placeholder

\* matrix.length ? `${matrix.length} × ${dim} (tokens × dimensions)` : '—'
MetaText(m) ==
    IF Len(m) # 0
    THEN NumToStr(Len(m)) \o TimesSign \o NumToStr(dim) \o MetaSuffix
    ELSE Placeholder

\* the empty branch: matrixGrid.innerHTML = ''
EmptyBranchGrid(children) == <<>>

\* runPipeline() reading `value` from the input, on a page whose container
\* has classes `classes` and whose grid has `children` and style `template`
runPipeline(value, classes, children, template) ==
    LET text == Trim(value)
        toks == tokenize(text)
        is == MapTokenToId(toks)
        m == MapEmbed(toks, is, 1)
        base == [tokens |-> toks, ids |-> is, matrix |-> m,
                 tokensOut |-> SummaryText(toks),
                 idsOut |-> SummaryText(MapNumToStr(is)),
                 matrixMeta |-> MetaText(m)]
    IN  IF Len(m) = 0
        THEN base @@ [classList |-> classes \ {"has-matrix"},
                      matrixGrid |-> EmptyBranchGrid(children),
                      gridTemplate |-> template]
        ELSE LET rendered == renderMatrix(children, toks, m) IN
             base @@ [classList |-> classes \cup {"has-matrix"},
                      matrixGrid |-> rendered.children,
                      gridTemplate |-> rendered.gridTemplate]

\* one invocation of runPipeline as a step of the page
RunPipelineStep(kind) ==
    \E out \in {runPipeline(textValue, classList, matrixGrid, gridTemplate)} :
    /\ tokens' = out.tokens
    /\ ids' = out.ids
    /\ matrix' = out.matrix
    /\ tokensOut' = out.tokensOut
    /\ idsOut' = out.idsOut
    /\ matrixMeta' = out.matrixMeta
    /\ classList' = out.classList
    /\ matrixGrid' = out.matrixGrid
    /\ gridTemplate' = out.gridTemplate
    /\ last' = kind
    /\ shownBefore' = <<tokensOut, Len(matrixGrid)>>
    /\ UNCHANGED textValue

(***************************************************************************)
(* Event handlers                                                          *)
(***************************************************************************)
\* btnRun's click listener
ClickRun == RunPipelineStep("click")

\* an input listener that reruns the pipeline on every edit
InputListenerReruns(newValue) ==
    \E out \in {runPipeline(newValue, classList, matrixGrid, gridTemplate)} :
    /\ textValue' = newValue
    /\ tokens' = out.tokens
    /\ ids' = out.ids
    /\ matrix' = out.matrix
    /\ tokensOut' = out.tokensOut
    /\ idsOut' = out.idsOut
    /\ matrixMeta' = out.matrixMeta
    /\ classList' = out.classList
    /\ matrixGrid' = out.matrixGrid
    /\ gridTemplate' = out.gridTemplate
    /\ last' = "input"
    /\ shownBefore' = <<tokensOut, Len(matrixGrid)>>

\* textInput's input listener, fired by an edit that leaves newValue
InputListener(newValue) ==
    /\ textValue' = newValue
    /\ IF Trim(newValue) = <<>>
       THEN /\ classList' = classList \ {"has-matrix"}
            /\ matrixGrid' = <<>>
       ELSE UNCHANGED <<classList, matrixGrid>>
    /\ last' = "input"
    /\ shownBefore' = <<tokensOut, Len(matrixGrid)>>
    /\ UNCHANGED <<tokensOut, idsOut, matrixMeta, gridTemplate, tokens, ids, matrix>>

\* the state the script leaves when it has run to its last line, the
\* load-time runPipeline() included, on a page whose input holds `value`
Loaded(value) ==
    \E out \in {runPipeline(value, {}, <<>>, <<>>)} :
    /\ textValue = value
    /\ tokens = out.tokens
    /\ ids = out.ids
    /\ matrix = out.matrix
    /\ tokensOut = out.tokensOut
    /\ idsOut = out.idsOut
    /\ matrixMeta = out.matrixMeta
    /\ classList = out.classList
    /\ matrixGrid = out.matrixGrid
    /\ gridTemplate = out.gridTemplate
    /\ last = "load"
    /\ shownBefore = <<<<>>, 0>>

\* all sequences over S of length at most n
RECURSIVE SeqsUpTo(_, _)
SeqsUpTo(S, n) ==
    IF n = 0 THEN {<<>>}
    ELSE LET shorter == SeqsUpTo(S, n - 1) IN
         shorter \cup {Append(s, c) : s \in shorter, c \in S}

(***************************************************************************)
(* Spec: the page, edited over Alphabet.  An edit appends a code unit,     *)
(* deletes the last one, or deletes everything (select all, delete).       *)
(***************************************************************************)
Init == \E value \in SeqsUpTo(Alphabet, MaxLen) : Loaded(value)

TypeChar == \E c \in Alphabet :
    Len(textValue) < MaxLen /\ InputListener(Append(textValue, c))

Backspace ==
    textValue # <<>> /\ InputListener(SubSeq(textValue, 1, Len(textValue) - 1))

DeleteAll == textValue # <<>> /\ InputListener(<<>>)

Next == TypeChar \/ Backspace \/ DeleteAll \/ ClickRun

Spec == Init /\ [][Next]_vars

(***************************************************************************)
(* WordSpec: one long word typed into an empty input, run at any point.    *)
(***************************************************************************)
WordInit == Loaded(<<>>)

TypeWordChar == \E c \in WordAlphabet :
    Len(textValue) < MaxWordLen /\ InputListener(Append(textValue, c))

WordNext == TypeWordChar \/ ClickRun

WordSpec == WordInit /\ [][WordNext]_vars

(***************************************************************************)
(* RenderSpec: renderMatrix applied to the matrix embedToken gives for a   *)
(* list of tokens and a dimension, the single-dimension case included.     *)
(***************************************************************************)
RECURSIVE MapEmbedDim(_, _)
MapEmbedDim(toks, dimension) ==
    IF toks = <<>> THEN <<>>
    ELSE <<embedToken(tokenToId(Head(toks)), dimension)>>
             \o MapEmbedDim(Tail(toks), dimension)

RenderInit ==
    \E toks \in SeqsUpTo(RenderTokens, MaxRenderRows) \ {<<>>} :
    \E dimension \in 1..MaxRenderDim :
        /\ textValue = <<>>
        /\ tokens = toks
        /\ ids = MapTokenToId(toks)
        /\ matrix = MapEmbedDim(toks, dimension)
        /\ tokensOut = <<>>
        /\ idsOut = <<>>
        /\ matrixMeta = <<>>
        /\ classList = {}
        /\ matrixGrid = <<>>
        /\ gridTemplate = <<>>
        /\ last = "init"
        /\ shownBefore = <<<<>>, 0>>

RenderCall ==
    /\ last = "init"
    /\ \E rendered \in {renderMatrix(matrixGrid, tokens, matrix)} :
        /\ matrixGrid' = rendered.children
        /\ gridTemplate' = rendered.gridTemplate
    /\ last' = "render"
    /\ UNCHANGED <<textValue, tokens, ids, matrix, tokensOut, idsOut, matrixMeta,
                   classList, shownBefore>>

RenderNext == RenderCall

RenderSpec == RenderInit /\ [][RenderNext]_vars

(***************************************************************************)
(* Properties                                                              *)
(***************************************************************************)
\* a text that is empty or holds whitespace only
IsBlank(s) == \A i \in 1..Len(s) : IsWhitespace(s[i])

HasMarker == "has-matrix" \in classList

\* the latest handler was an invocation of runPipeline
JustRan == last \in {"load", "click"}

\* the outputs the page shows: the three summaries, the marker, the cells
Outputs == <<tokensOut, idsOut, matrixMeta, HasMarker, matrixGrid>>

\* C1: when runPipeline has run on an empty or whitespace-only text, the
\* token list and the id list are empty, the three summaries show the
\* placeholder, the grid has no cells and the has-matrix marker is absent,
\* whatever was shown before.
C1_BlankRunClears ==
    (JustRan /\ IsBlank(textValue)) =>
        /\ tokens = <<>>
        /\ ids = <<>>
        /\ tokensOut = Placeholder
        /\ idsOut = Placeholder
        /\ matrixMeta = Placeholder
        /\ matrixGrid = <<>>
        /\ ~HasMarker

\* a click on a whitespace-only text while the token summary still showed
\* the tokens of an earlier run
C1_Witness ==
    /\ last = "click"
    /\ textValue # <<>>
    /\ IsBlank(textValue)
    /\ shownBefore[1] # Placeholder
    /\ tokensOut = Placeholder
    /\ matrixGrid = <<>>

SurfaceEmpty ==
    /\ tokensOut = Placeholder
    /\ idsOut = Placeholder
    /\ matrixMeta = Placeholder
    /\ matrixGrid = <<>>
    /\ ~HasMarker

SurfacePopulated ==
    /\ tokensOut # Placeholder
    /\ idsOut # Placeholder
    /\ matrixMeta # Placeholder
    /\ matrixGrid # <<>>
    /\ HasMarker

\* C2: in every state reached after the load-time run by clicks and edits,
\* the output surface is either empty (three placeholders, no cells, no
\* marker) or populated (three non-placeholder summaries, a rendered grid,
\* the marker), never a mix.
C2_TwoStateSurface == SurfaceEmpty \/ SurfacePopulated

\* C6: the outputs a run leaves (the three summaries, the marker, the cells)
\* are those the same run leaves on a page that has shown nothing yet: they
\* depend on the text alone, and nothing of an earlier run survives in them.
C6_RunIsFunctionOfText ==
    JustRan =>
        LET fresh == runPipeline(textValue, {}, <<>>, <<>>) IN
        Outputs = <<fresh.tokensOut, fresh.idsOut, fresh.matrixMeta,
                    "has-matrix" \in fresh.classList, fresh.matrixGrid>>

\* a click that found a populated grid of another size than the one it left
C6_Witness ==
    /\ last = "click"
    /\ shownBefore[2] > 0
    /\ matrixGrid # <<>>
    /\ shownBefore[2] # Len(matrixGrid)
    /\ shownBefore[1] # tokensOut

\* what a step of the input listener leaves unchanged
C10_EditStep ==
    (last' = "input") =>
        /\ tokensOut' = tokensOut
        /\ idsOut' = idsOut
        /\ matrixMeta' = matrixMeta
        /\ (~IsBlank(textValue')) => (matrixGrid' = matrixGrid /\ classList' = classList)

\* the summaries are those of the latest run's tokens, ids and matrix
C10_SummariesOfLastRun ==
    /\ tokensOut = (IF tokens = <<>> THEN Placeholder ELSE Join(tokens, CommaSpace))
    /\ (idsOut = Placeholder) <=> (ids = <<>>)
    /\ (matrixMeta = Placeholder) <=> (matrix = <<>>)

\* C10: an edit of the text never changes the three summaries; an edit that
\* leaves a non-blank text changes neither the grid nor the marker; an edit
\* that leaves a blank text may change the grid and the marker only.  So
\* the summaries stay those of the tokens of the latest run.
C10_EditFrame == [](C10_SummariesOfLastRun) /\ [][C10_EditStep]_vars

\* after an edit to a non-blank text the token summary is not that of the
\* text now in the input
C10_Witness ==
    /\ last = "input"
    /\ ~IsBlank(textValue)
    /\ tokensOut # SummaryText(tokenize(Trim(textValue)))
    /\ matrixGrid # <<>>

\* the id the hash rule gives: starting from 0, h becomes h * 31 + charCode
\* for each code unit in order, and the id is h mod 1024.  2^32 is a
\* multiple of 1024, so reducing h modulo 2^32 on the way leaves h mod 1024
\* what it is; the rule is evaluated here modulo 1024 throughout.
RECURSIVE C3_HashRule(_, _)
C3_HashRule(token, n) ==
    IF n = 0 THEN 0 ELSE (C3_HashRule(token, n - 1) * 31 + token[n]) % 1024

\* C3: the id of every token is an integer in [0, 1024) and equals H mod
\* 1024, H being the (h * 31 + charCode) mod 2^32 fold of the token's code
\* units from 0; tokenToId("a") is 97.
C3_IdIsHashMod1024 ==
    /\ Len(ids) = Len(tokens)
    /\ \A i \in 1..Len(tokens) :
        /\ ids[i] \in 0..1023
        /\ ids[i] = C3_HashRule(tokens[i], Len(tokens[i]))
    /\ (tokens = <<<<97>>>>) => (ids = <<97>>)

\* a run on a word whose hash has wrapped past 2^32 and has bit 31 set
C3_Witness ==
    /\ last = "click"
    /\ Len(tokens) = 1
    /\ Len(tokens[1]) >= 8
    /\ HashLoop(tokens[1], 1, <<0, 0>>)[1] >= 32768
    /\ ids[1] = C3_HashRule(tokens[1], Len(tokens[1]))

\* the tokens of a lowercased text, read off by one scan from the left:
\* whitespace separates, a run of word characters is taken whole, any other
\* code unit is a token of its own
RECURSIVE C4_Scan(_, _)
C4_Scan(s, word) ==
    IF s = <<>> THEN (IF word = <<>> THEN <<>> ELSE <<word>>)
    ELSE LET c == Head(s) IN
         IF IsWordChar(c) THEN C4_Scan(Tail(s), Append(word, c))
         ELSE (IF word = <<>> THEN <<>> ELSE <<word>>)
              \o (IF IsWhitespace(c) THEN <<>> ELSE <<<<c>>>>)
              \o C4_Scan(Tail(s), <<>>)

C4_Lower(s) == [i \in 1..Len(s) |-> IF s[i] \in 65..90 THEN s[i] + 32 ELSE s[i]]

C4_TokenShape(t) ==
    /\ t # <<>>
    /\ \A i \in 1..Len(t) : ~IsWhitespace(t[i]) /\ t[i] \notin 65..90
    /\ \/ \A i \in 1..Len(t) : IsWordChar(t[i])
       \/ Len(t) = 1 /\ ~IsWordChar(t[1])

\* C4: tokenize returns, in order of appearance, the lowercase tokens of the
\* text: each is non-empty, has no whitespace, and is a maximal run of word
\* characters or one code unit that is neither a word character nor
\* whitespace.  A blank text gives no token; a non-empty text of word
\* characters only gives the lowercased text as its single token.
C4_TokenizeScans ==
    LET result == tokenize(textValue) IN
    /\ result = C4_Scan(C4_Lower(textValue), <<>>)
    /\ \A i \in 1..Len(result) : C4_TokenShape(result[i])
    /\ IsBlank(textValue) => result = <<>>
    /\ (textValue # <<>> /\ \A i \in 1..Len(textValue) : IsWordChar(textValue[i]))
           => result = <<C4_Lower(textValue)>>
    /\ JustRan => tokens = result

\* a run on "A!a": an upper-case letter, a punctuation mark, a letter
C4_Witness ==
    /\ last = "click"
    /\ textValue = <<65, 33, 97>>
    /\ tokens = <<<<97>>, <<33>>, <<97>>>>

\* "Hi there!"
C5_HiThere == <<72, 105, 32, 116, 104, 101, 114, 101, 33>>

\* C5: the matrix is aligned with the tokens: as many rows as tokens and
\* ids, row r the embedding of the id of token r, every row of 8 entries,
\* empty exactly when there is no token; a non-empty matrix is summarised as
\* "{rows} × 8 (tokens × dimensions)".  "Hi there!" gives the tokens "hi",
\* "there", "!" and "3 × 8 (tokens × dimensions)".
C5_MatrixAligned ==
    /\ Len(matrix) = Len(tokens)
    /\ Len(ids) = Len(tokens)
    /\ \A r \in 1..Len(matrix) :
        /\ ids[r] = tokenToId(tokens[r])
        /\ Len(matrix[r]) = 8
        /\ \A c \in 1..Len(matrix[r]) : matrix[r][c] = EmbedValue(ids[r], c - 1)
    /\ (matrix = <<>>) <=> (tokens = <<>>)
    /\ (matrix # <<>>) =>
           matrixMeta = NumToStr(Len(matrix)) \o <<32, 215, 32, 56>> \o MetaSuffix
    /\ LET out == runPipeline(C5_HiThere, {}, <<>>, <<>>) IN
        /\ out.tokens = <<<<104, 105>>, <<116, 104, 101, 114, 101>>, <<33>>>>
        /\ Len(out.matrix) = 3
        /\ out.matrixMeta = <<51, 32, 215, 32, 56, 32, 40, 116, 111, 107, 101, 110,
                              115, 32, 215, 32, 100, 105, 109, 101, 110, 115, 105,
                              111, 110, 115, 41>>

\* a run that left three rows, two of them of the same token
C5_Witness ==
    /\ last = "click"
    /\ Len(tokens) = 3
    /\ tokens[1] = tokens[3]
    /\ matrix[1] = matrix[3]
    /\ matrix[1] # matrix[2]

\* the grid cell in grid row r (0: the header) and grid column c (0: the
\* labels) of a grid with cols dimension columns, in row-major order
CellAt(r, c, cols) == matrixGrid[r * (cols + 1) + c + 1]

C7_Cols == Len(matrix[1])
C7_Values == {matrix[r][c] : r \in 1..Len(matrix), c \in 1..C7_Cols}
C7_IsMin(v) == \A w \in C7_Values : v <= w
C7_IsMax(v) == \A w \in C7_Values : v >= w
\* rgb(255,255,252), the colour at t = 0
C7_AnchorT0 == <<114, 103, 98, 40, 50, 53, 53, 44, 50, 53, 53, 44, 50, 53, 50, 41>>
\* rgb(125,211,252), the colour at t = 1
C7_AnchorT1 == <<114, 103, 98, 40, 49, 50, 53, 44, 50, 49, 49, 44, 50, 53, 50, 41>>

\* t of a value, as renderMatrix scales it: <<numerator, denominator>>
C7_T(v) ==
    LET min == CHOOSE w \in C7_Values : C7_IsMin(w)
        max == CHOOSE w \in C7_Values : C7_IsMax(w)
    IN  HeatT(v, min, HeatRange(min, max))

C7_TInUnitInterval ==
    \A v \in C7_Values :
        /\ C7_T(v)[2] > 0
        /\ 0 <= C7_T(v)[1]
        /\ C7_T(v)[1] <= C7_T(v)[2]

C8_GridLayout ==
    (JustRan /\ tokens # <<>>) =>
        LET rows == Len(tokens)
            cols == 8
        IN
        /\ Len(matrixGrid) = (rows + 1) * (cols + 1)
        /\ CellAt(0, 0, cols).textContent = <<>>
        /\ CellAt(0, 0, cols).className[2] = "corner dim-label token-label"
        /\ \A c \in 1..cols :
            /\ CellAt(0, c, cols).textContent = <<100, 48 + (c - 1)>>
            /\ CellAt(0, c, cols).className[2] = "dim-label"
        /\ \A r \in 1..rows :
            /\ CellAt(r, 0, cols).className[2] = "token-label"
            /\ (Len(tokens[r]) <= 10) => CellAt(r, 0, cols).textContent = tokens[r]
            /\ \A c \in 1..cols :
                /\ CellAt(r, c, cols).className[2] = "value"
                /\ CellAt(r, c, cols).textContent =
                       <<48 + (matrix[r][c] \div 100), 46,
                         48 + ((matrix[r][c] \div 10) % 10),
                         48 + (matrix[r][c] % 10)>>

\* a click that rendered three different tokens
C8_Witness ==
    /\ last = "click"
    /\ Len(tokens) = 3
    /\ tokens[1] # tokens[2]
    /\ Len(matrixGrid) = 36
    /\ matrixGrid[28].textContent = tokens[3]

\* C9: the row label of a token of at most 10 code units is the token; that
\* of a longer token is its first 8 code units and an ellipsis; no label is
\* longer than 10, and tokens of length 9 and 10 are shown whole.
C9_RowLabel ==
    (JustRan /\ tokens # <<>>) =>
        \A r \in 1..Len(tokens) :
            LET label == CellAt(r, 0, 8).textContent
                token == tokens[r]
            IN
            /\ Len(label) <= 10
            /\ (Len(token) <= 10) => label = token
            /\ (Len(token) > 10) =>
                   /\ Len(label) = 9
                   /\ \A i \in 1..8 : label[i] = token[i]
                   /\ label[9] = 8230

\* a run on a word of more than 10 code units, shown cut
C9_Witness ==
    /\ last = "click"
    /\ Len(tokens) = 1
    /\ Len(tokens[1]) > 10
    /\ Len(matrixGrid[10].textContent) = 9
    /\ matrixGrid[10].textContent[9] = 8230

====
